---- MODULE Spec2Model ----
(***************************************************************************)
(* A model of my_utilities: the convenience helpers                        *)
(* (convenience/_convenience.py) and the R session wrapper                  *)
(* (wrappers/_rspace.py).                                                   *)
(*                                                                          *)
(* Python values are modelled as records whose payloads are strings, so    *)
(* that values of different Python types can live in one set.  A Python    *)
(* str is a sequence of one-character strings where the code builds it     *)
(* character by character (interval2str).                                   *)
(***************************************************************************)
EXTENDS Integers, Sequences, FiniteSets, TLC

VARIABLES
    \* --- logging module state touched by get_logger ---
    handlers,      \* logger -> sequence of attached handlers (logger.handlers)
    level,         \* logger -> numeric level (logger.level)
    last_print,    \* logger -> <<>> (attribute not set) or <<value>>
    ncalls,        \* history: logger -> number of get_logger calls that returned it
    lastcall,      \* history: the most recent get_logger call and the state it found
    \* --- one call of a stateless helper ---
    call,          \* the arguments of the call
    outcome,       \* Pending, or what the call returned / raised
    \* --- the embedded R session used by RSpace ---
    globalenv,     \* name -> R value bound in R's global environment, or Unbound
    written,       \* history: name -> the host value and instance of the last __setitem__
    lastop         \* history: the most recent RSpace operation, what a read gave,
                   \* whether a write kept the bindings of the other names

vars == <<handlers, level, last_print, ncalls, lastcall, call, outcome,
          globalenv, written, lastop>>

loggerVars == <<handlers, level, last_print, ncalls, lastcall>>
helperVars == <<call, outcome>>
rspaceVars == <<globalenv, written, lastop>>

(***************************************************************************)
(* Bounds of the model.                                                    *)
(***************************************************************************)
MaxCalls == 3          \* get_logger calls per logger
MaxP == 50000          \* p-values 0 .. MaxP, in units of 0.00001
MaxBound == 12         \* interval bounds -MaxBound .. MaxBound, in tenths
MaxRows == 2           \* rows of the dataframe given to select
MaxQueries == 2        \* queries in a list or mapping given to select

(***************************************************************************)
(* Values of the variables before anything has happened                     *)
(***************************************************************************)
\* no helper has been called, or the call has not returned yet
NoHelperCall == [fn |-> "none"]
Pending == [kind |-> "pending"]

\* the names used for R variables; "my var" is not a syntactic R symbol
Names == {"x", "my var"}
SyntacticNames == {"x"}

\* a name without a binding, a name never written, no operation yet
Unbound == [type |-> "unbound"]
NotWritten == [via |-> "none"]
NoOp == [op |-> "none"]

(***************************************************************************)
(* get_logger                                                               *)
(***************************************************************************)
None == "None"

\* the level argument left out (Python None)
NoLevel == -1

\* logging's numeric levels
NOTSET == 0
DEBUG == 10
INFO == 20
WARNING == 30
ERROR == 40

RootLogger == "<root>"
LoggerNames == {None, "", "a", "a.b"}
Loggers == {RootLogger, "a", "a.b"}
LevelArgs == {NoLevel, DEBUG, INFO, WARNING, ERROR}

\* logging.getLogger(name): None and the empty name give the root logger,
\* any other name the one logger registered under it.
getLogger(name) ==
    IF name = None \/ name = "" THEN RootLogger ELSE name

\* the handler built on lines 70-75
StreamHandler ==
    [class |-> "StreamHandler",
     fmt |-> "%(asctime)s %(name)s [%(levelname)-s]: %(message)s",
     datefmt |-> "%Y-%m-%d %H:%M:%S"]

\* lines 65-66: an omitted level means INFO
EffectiveLevelWarning(lvl) ==
    IF lvl = NoLevel THEN WARNING ELSE lvl

EffectiveLevel(lvl) ==
    IF lvl = NoLevel THEN INFO ELSE lvl

\* lines 69-76: a handler is added only to a logger that has none
AttachHandlerAlways(hs) ==
    Append(hs, StreamHandler)

AttachHandler(hs) ==
    IF Len(hs) = 0 THEN Append(hs, StreamHandler) ELSE hs

NoCall == [name |-> None, lvl |-> NoLevel, logger |-> "<none>",
           handlers_before |-> <<>>, level_before |-> NOTSET]

\* the logging module before any call: no logger has a handler, the root
\* logger is at WARNING and every other logger at NOTSET
LoggerInit ==
    /\ handlers = [l \in Loggers |-> <<>>]
    /\ level = [l \in Loggers |-> IF l = RootLogger THEN WARNING ELSE NOTSET]
    /\ last_print = [l \in Loggers |-> <<>>]
    /\ ncalls = [l \in Loggers |-> 0]
    /\ lastcall = NoCall
    /\ call = NoHelperCall
    /\ outcome = Pending
    /\ globalenv = [n \in Names |-> Unbound]
    /\ written = [n \in Names |-> NotWritten]
    /\ lastop = NoOp

get_logger(name, lvl) ==
    LET logger == getLogger(name)
    IN  /\ ncalls[logger] < MaxCalls
        /\ handlers' = [handlers EXCEPT ![logger] = AttachHandler(@)]
        /\ level' = [level EXCEPT ![logger] = EffectiveLevel(lvl)]
        /\ last_print' = [last_print EXCEPT ![logger] = <<0>>]
        /\ ncalls' = [ncalls EXCEPT ![logger] = @ + 1]
        /\ lastcall' = [name |-> name, lvl |-> lvl, logger |-> logger,
                        handlers_before |-> handlers[logger],
                        level_before |-> level[logger]]

GetLoggerCall ==
    /\ \E name \in LoggerNames, lvl \in LevelArgs : get_logger(name, lvl)
    /\ UNCHANGED <<helperVars, rspaceVars>>

(***************************************************************************)
(* Stateless helpers: one call, one outcome                                 *)
(***************************************************************************)


Return(v) == [kind |-> "return", value |-> v]
Raise(exc, msg) == [kind |-> "raise", exc |-> exc, message |-> msg]

(***************************************************************************)
(* pvalue_to_asterisks: p-values are integers in units of 0.00001           *)
(***************************************************************************)
P_0001 == 10        \* 0.0001
P_001 == 100        \* 0.001
P_01 == 1000        \* 0.01
P_05 == 5000        \* 0.05

pvalue_to_asterisks_strict(p_value) ==
    IF p_value < P_0001 THEN "****"
    ELSE IF p_value < P_001 THEN "***"
    ELSE IF p_value < P_01 THEN "**"
    ELSE IF p_value < P_05 THEN "*"
    ELSE "ns"

pvalue_to_asterisks(p_value) ==
    IF p_value <= P_0001 THEN "****"
    ELSE IF p_value <= P_001 THEN "***"
    ELSE IF p_value <= P_01 THEN "**"
    ELSE IF p_value <= P_05 THEN "*"
    ELSE "ns"

PvalueInit ==
    /\ call \in [fn : {"pvalue_to_asterisks"}, p_value : 0..MaxP]
    /\ outcome = Pending
    /\ handlers = [l \in Loggers |-> <<>>]
    /\ level = [l \in Loggers |-> IF l = RootLogger THEN WARNING ELSE NOTSET]
    /\ last_print = [l \in Loggers |-> <<>>]
    /\ ncalls = [l \in Loggers |-> 0]
    /\ lastcall = NoCall
    /\ globalenv = [n \in Names |-> Unbound]
    /\ written = [n \in Names |-> NotWritten]
    /\ lastop = NoOp

PvalueCall ==
    /\ outcome = Pending
    /\ outcome' = Return(pvalue_to_asterisks(call.p_value))
    /\ UNCHANGED <<call, loggerVars, rspaceVars>>

(***************************************************************************)
(* interval2str: bounds are integers in tenths, strings are sequences of   *)
(* characters                                                               *)
(***************************************************************************)
Digit(d) ==
    CASE d = 0 -> "0" [] d = 1 -> "1" [] d = 2 -> "2" [] d = 3 -> "3"
      [] d = 4 -> "4" [] d = 5 -> "5" [] d = 6 -> "6" [] d = 7 -> "7"
      [] d = 8 -> "8" [] d = 9 -> "9"

RECURSIVE Digits(_)
Digits(n) ==
    IF n < 10 THEN <<Digit(n)>> ELSE Append(Digits(n \div 10), Digit(n % 10))

\* '{:0.1f}'.format(x) for x = tenths / 10
Format01f(tenths) ==
    LET a == IF tenths < 0 THEN -tenths ELSE tenths
        sign == IF tenths < 0 THEN <<"-">> ELSE <<>>
    IN  sign \o Digits(a \div 10) \o <<".">> \o <<Digit(a % 10)>>

\* line 9: fmt.format(interval.left, interval.right) with the default fmt
RangeStr(interval) ==
    Format01f(interval.left) \o <<",", " ">> \o Format01f(interval.right)

interval2str_lenient(interval) ==
    LET range_str == RangeStr(interval)
    IN  IF interval.closed = "both" THEN Return(<<"[">> \o range_str \o <<"]">>)
        ELSE IF interval.closed = "left" THEN Return(<<"[">> \o range_str \o <<")">>)
        ELSE IF interval.closed = "right" THEN Return(<<"(">> \o range_str \o <<"]">>)
        ELSE Return(<<"(">> \o range_str \o <<")">>)

interval2str(interval) ==
    LET range_str == RangeStr(interval)
    IN  IF interval.closed = "both" THEN Return(<<"[">> \o range_str \o <<"]">>)
        ELSE IF interval.closed = "left" THEN Return(<<"[">> \o range_str \o <<")">>)
        ELSE IF interval.closed = "right" THEN Return(<<"(">> \o range_str \o <<"]">>)
        ELSE IF interval.closed = "neither" THEN Return(<<"(">> \o range_str \o <<")">>)
        ELSE Raise("ValueError", "Unknown bound")

ClosedTags == {"both", "left", "right", "neither"}
OtherTags == {"", "Both", "open"}

IntervalInit ==
    /\ call \in [fn : {"interval2str"},
                 interval : [left : (-MaxBound)..MaxBound,
                             right : (-MaxBound)..MaxBound,
                             closed : ClosedTags \cup OtherTags]]
    /\ outcome = Pending
    /\ handlers = [l \in Loggers |-> <<>>]
    /\ level = [l \in Loggers |-> IF l = RootLogger THEN WARNING ELSE NOTSET]
    /\ last_print = [l \in Loggers |-> <<>>]
    /\ ncalls = [l \in Loggers |-> 0]
    /\ lastcall = NoCall
    /\ globalenv = [n \in Names |-> Unbound]
    /\ written = [n \in Names |-> NotWritten]
    /\ lastop = NoOp

IntervalCall ==
    /\ outcome = Pending
    /\ outcome' = interval2str(call.interval)
    /\ UNCHANGED <<call, loggerVars, rspaceVars>>

(***************************************************************************)
(* is_true                                                                  *)
(***************************************************************************)
PyValue(type, repr) == [type |-> type, repr |-> repr]

PyValues ==
    {PyValue("bool", "True"), PyValue("bool", "False"),
     PyValue("int", "0"), PyValue("int", "1"),
     PyValue("str", ""), PyValue("str", "0"),
     PyValue("NoneType", "None")}

\* Python's truth value testing
Truthy(v) ==
    v \notin {PyValue("bool", "False"), PyValue("int", "0"),
              PyValue("str", ""), PyValue("NoneType", "None")}

Data == {"x1", "x2", "x3"}
\* the default message (its backquotes left out) and one given by the caller
Messages == {"The condition argument is False!", "custom message"}

\* a condition is a plain value or a callable of one argument
Conditions ==
    [callable : {FALSE}, value : PyValues]
        \cup [callable : {TRUE}, fn : [Data -> PyValues]]

\* lines 118-121: what the assert statement tests
AssertedNoCall(data, condition) ==
    IF condition.callable THEN TRUE ELSE Truthy(condition.value)

Asserted(data, condition) ==
    IF condition.callable THEN Truthy(condition.fn[data])
    ELSE Truthy(condition.value)

is_true(data, condition, message) ==
    IF Asserted(data, condition)
        THEN Return(data)
        ELSE Raise("AssertionError", message)

IsTrueInit ==
    /\ call \in [fn : {"is_true"}, data : Data, condition : Conditions,
                 message : Messages]
    /\ outcome = Pending
    /\ handlers = [l \in Loggers |-> <<>>]
    /\ level = [l \in Loggers |-> IF l = RootLogger THEN WARNING ELSE NOTSET]
    /\ last_print = [l \in Loggers |-> <<>>]
    /\ ncalls = [l \in Loggers |-> 0]
    /\ lastcall = NoCall
    /\ globalenv = [n \in Names |-> Unbound]
    /\ written = [n \in Names |-> NotWritten]
    /\ lastop = NoOp

IsTrueCall ==
    /\ outcome = Pending
    /\ outcome' = is_true(call.data, call.condition, call.message)
    /\ UNCHANGED <<call, loggerVars, rspaceVars>>

(***************************************************************************)
(* select: a dataframe is a sequence of rows, each with its index label     *)
(* and one column col; a query string is one of a few predicates on col     *)
(***************************************************************************)
Rows == [index : {0, 1}, col : {0, 1, 2}]
Queries == {"col > 1", "col <= 1", "col == 0"}

\* dataframe.query(que_str) row by row
Satisfies(row, que_str) ==
    CASE que_str = "col > 1" -> row.col > 1
      [] que_str = "col <= 1" -> row.col <= 1
      [] que_str = "col == 0" -> row.col = 0

\* the keys a mapping of queries may use, and the keys select makes up
StrKey(k) == [t |-> "str", s |-> k]
IntKey(i) == [t |-> "int", i |-> i]
DictKeys == {StrKey("a"), StrKey("b"), StrKey("c")}

\* lines 142-145: a lone string gets the key '', a list its positions
Normalize(queries) ==
    CASE queries.type = "str" -> <<<<StrKey(""), queries.que>>>>
      [] queries.type = "list" ->
            [i \in 1..Len(queries.ques) |-> <<IntKey(i - 1), queries.ques[i]>>]
      [] queries.type = "dict" -> queries.items

\* lines 151-157: the rows satisfying the query, in order, each with the
\* indicator column set to the query's key
SubsetAllRows(dataframe, que_id, que_str) ==
    [i \in 1..Len(dataframe) |->
        [index |-> dataframe[i].index, col |-> dataframe[i].col, query |-> que_id]]

Subset(dataframe, que_id, que_str) ==
    LET hit == SelectSeq(dataframe, LAMBDA row : Satisfies(row, que_str))
    IN  [i \in 1..Len(hit) |->
            [index |-> hit[i].index, col |-> hit[i].col, query |-> que_id]]

RECURSIVE Concat(_)
Concat(subsets) ==
    IF Len(subsets) = 0 THEN <<>>
    ELSE Head(subsets) \o Concat(Tail(subsets))

\* line 159: pd.concat of an empty list raises
select(dataframe, queries) ==
    LET items == Normalize(queries)
        subsets == [i \in 1..Len(items) |->
                        Subset(dataframe, items[i][1], items[i][2])]
    IN  IF Len(subsets) = 0
            THEN Raise("ValueError", "No objects to concatenate")
            ELSE Return(Concat(subsets))

SeqsUpTo(S, n) == UNION {[1..k -> S] : k \in 0..n}

\* the items of a dict: distinct keys, in insertion order
DictItems ==
    {it \in SeqsUpTo(DictKeys \X Queries, MaxQueries) :
        \A i, j \in 1..Len(it) : i # j => it[i][1] # it[j][1]}

SelectInit ==
    /\ \E df \in SeqsUpTo(Rows, MaxRows) :
          \/ \E q \in Queries :
                call = [fn |-> "select", dataframe |-> df,
                        queries |-> [type |-> "str", que |-> q]]
          \/ \E qs \in SeqsUpTo(Queries, MaxQueries) :
                call = [fn |-> "select", dataframe |-> df,
                        queries |-> [type |-> "list", ques |-> qs]]
          \/ \E it \in DictItems :
                call = [fn |-> "select", dataframe |-> df,
                        queries |-> [type |-> "dict", items |-> it]]
    /\ outcome = Pending
    /\ handlers = [l \in Loggers |-> <<>>]
    /\ level = [l \in Loggers |-> IF l = RootLogger THEN WARNING ELSE NOTSET]
    /\ last_print = [l \in Loggers |-> <<>>]
    /\ ncalls = [l \in Loggers |-> 0]
    /\ lastcall = NoCall
    /\ globalenv = [n \in Names |-> Unbound]
    /\ written = [n \in Names |-> NotWritten]
    /\ lastop = NoOp

SelectCall ==
    /\ outcome = Pending
    /\ outcome' = select(call.dataframe, call.queries)
    /\ UNCHANGED <<call, loggerVars, rspaceVars>>

(***************************************************************************)
(* RSpace                                                                   *)
(***************************************************************************)
\* Every RSpace instance uses the one embedded R of the process
\* (self.ro = RSpace.ro); the instances are told apart only in the history.
Instances == {1, 2}


\* --- R values ------------------------------------------------------------
\* An R value has a type, its elements (column-major for arrays, printed as
\* strings) and the attributes dim, names and dimnames; <<>> is R's NULL.
RValue(type, data, dim, names, rownames, colnames) ==
    [type |-> type, data |-> data, dim |-> dim, names |-> names,
     rownames |-> rownames, colnames |-> colnames]

RVector(type, data, names) == RValue(type, data, <<>>, names, <<>>, <<>>)
RMatrix(type, data, dim, rownames, colnames) ==
    RValue(type, data, dim, <<>>, rownames, colnames)


AtomicTypes == {"double", "integer", "character", "logical"}

\* --- the host values given to __setitem__ ---------------------------------
PyScalar(type, repr) == [kind |-> "scalar", type |-> type, repr |-> repr]
PyDict(keys, values) == [kind |-> "dict", keys |-> keys, values |-> values]
PySeries(index, data) == [kind |-> "Series", index |-> index, data |-> data]
TaggedList(values, tags) == [kind |-> "TaggedList", tags |-> tags, values |-> values]

Scalars ==
    {PyScalar("int", "5"), PyScalar("float", "1.5"),
     PyScalar("str", "u"), PyScalar("bool", "True")}

HostValues ==
    Scalars
        \cup {PyDict(<<"a", "b">>, <<"1", "2">>)}
        \cup {PySeries([default |-> FALSE, labels |-> <<"a", "b">>],
                       <<"1.5", "2.5">>)}

\* the R type of a Python scalar and back
RTypeOf(pytype) ==
    CASE pytype = "int" -> "integer"
      [] pytype = "float" -> "double"
      [] pytype = "str" -> "character"
      [] pytype = "bool" -> "logical"

PyTypeOf(rtype) ==
    CASE rtype = "integer" -> "int"
      [] rtype = "double" -> "float"
      [] rtype = "character" -> "str"
      [] rtype = "logical" -> "bool"

\* R prints TRUE / FALSE where Python prints True / False
RRepr(pytype, repr) ==
    IF pytype = "bool" THEN (IF repr = "True" THEN "TRUE" ELSE "FALSE") ELSE repr

PyRepr(rtype, elem) ==
    IF rtype = "logical" THEN (IF elem = "TRUE" THEN "True" ELSE "False") ELSE elem

\* lines 36-37: a dict becomes a tagged list, anything else is kept
Tagged(value) ==
    IF value.kind = "dict" THEN TaggedList(value.values, value.keys) ELSE value

\* line 40: py2rpy under default_converter + pandas2ri.converter
py2rpy(value) ==
    CASE value.kind = "scalar" ->
            RVector(RTypeOf(value.type), <<RRepr(value.type, value.repr)>>, <<>>)
      [] value.kind = "TaggedList" ->
            RVector("list", value.values, value.tags)
      [] value.kind = "Series" ->
            RVector("double", value.data, value.index.labels)

\* line 41: ro.r.assign(name, value_r)
assign_forgetting(env, name, value_r) ==
    [n \in Names |-> IF n = name THEN value_r ELSE Unbound]

assign(env, name, value_r) ==
    [env EXCEPT ![name] = value_r]

\* --- the host values __getitem__ builds ------------------------------------
DefaultLabels(n) == [default |-> TRUE, n |-> n]
Labels(seq) == [default |-> FALSE, labels |-> seq]

NdArray(shape, data) == [kind |-> "ndarray", shape |-> shape, data |-> data]
StrVector(data) == [kind |-> "StrVector", data |-> data]
BoolVector(data) == [kind |-> "BoolVector", data |-> data]
OrdDict(keys, data) == [kind |-> "OrdDict", keys |-> keys, data |-> data]
Series(index, data) == [kind |-> "Series", index |-> index, data |-> data]
DataFrame(shape, data, index, columns) ==
    [kind |-> "DataFrame", shape |-> shape, data |-> data,
     index |-> index, columns |-> columns]

\* line 45: rpy2py under default_converter + pandas2ri.converter, giving the
\* kinds of value the code goes on to test for: a data.frame becomes a
\* DataFrame (line 52), a character vector a StrVector (line 56), a numeric
\* vector or array an ndarray whose shape is the R dim (lines 60 and 73), a
\* logical vector a BoolVector, a list an ordered dict (line 68).
rpy2py(rv) ==
    CASE rv.type = "data.frame" ->
            DataFrame(<<Len(rv.rownames), Len(rv.names)>>, rv.data,
                      Labels(rv.rownames), Labels(rv.names))
      [] rv.type \in {"double", "integer"} ->
            NdArray(IF rv.dim = <<>> THEN <<Len(rv.data)>> ELSE rv.dim, rv.data)
      [] rv.type = "character" -> StrVector(rv.data)
      [] rv.type = "logical" -> BoolVector(rv.data)
      [] rv.type = "list" -> OrdDict(rv.names, rv.data)

\* --- the R expressions __getitem__ evaluates -------------------------------
R_is_atomic(rv) == rv.type \in AtomicTypes
R_length(rv) == IF rv.type = "data.frame" THEN Len(rv.names) ELSE Len(rv.data)
R_dim(rv) ==
    IF rv.type = "data.frame" THEN <<Len(rv.rownames), Len(rv.names)>> ELSE rv.dim
R_names(rv) == rv.names
R_rownames(rv) == rv.rownames
R_colnames(rv) == IF rv.type = "data.frame" THEN rv.names ELSE rv.colnames

\* value_py[0]: the first element of a flat vector, the first slice along
\* the first axis of an array of two or more dimensions
Index0(value_py, rtype) ==
    IF value_py.kind = "ndarray" /\ Len(value_py.shape) > 1
        THEN LET d1 == value_py.shape[1]
                 n == Len(value_py.data) \div d1
             IN  Return(NdArray(Tail(value_py.shape),
                                [i \in 1..n |-> value_py.data[(i - 1) * d1 + 1]]))
        ELSE Return(PyScalar(PyTypeOf(rtype), PyRepr(rtype, value_py.data[1])))

\* dict(value_py): a mapping is copied; any other iterable must yield
\* key/value pairs, which the scalar elements of an array are not
DictOf(value_py) ==
    IF value_py.kind = "OrdDict"
        THEN Return(Series(Labels(value_py.keys), value_py.data))
    ELSE IF Len(value_py.data) = 0
        THEN Return(Series(Labels(<<>>), <<>>))
    ELSE Raise("TypeError",
               "cannot convert dictionary update sequence element #0 to a sequence")

\* lines 66-71: no dim attribute
AsSeries(value_py, rv) ==
    LET value_pd == DictOf(value_py)
    IN  IF value_pd.kind = "raise" THEN value_pd
        ELSE IF R_names(rv) # <<>>
            THEN Return([value_pd.value EXCEPT !.index = Labels(R_names(rv))])
        ELSE value_pd

\* lines 72-79: a dim attribute
AsDataFrame(value_py, rv) ==
    LET nrow == value_py.shape[1]
        ncol == IF Len(value_py.shape) > 1 THEN value_py.shape[2] ELSE 1
        index == IF R_rownames(rv) # <<>> THEN Labels(R_rownames(rv))
                 ELSE DefaultLabels(nrow)
        columns == IF R_colnames(rv) # <<>> THEN Labels(R_colnames(rv))
                   ELSE DefaultLabels(ncol)
    IN  Return(DataFrame(<<nrow, ncol>>, value_py.data, index, columns))

\* lines 47-81: the host representation of the R value bound to the name
Read(rv) ==
    LET value_py == rpy2py(rv)
    IN  IF R_is_atomic(rv) /\ R_length(rv) = 1 THEN Index0(value_py, rv.type)
        ELSE IF value_py.kind = "DataFrame" THEN Return(value_py)
        ELSE IF value_py.kind = "StrVector"
            THEN Return(NdArray(<<Len(value_py.data)>>, value_py.data))
        ELSE IF value_py.kind = "ndarray" /\ Len(value_py.shape) > 2
            THEN Return(value_py)
        ELSE IF R_dim(rv) = <<>> THEN AsSeries(value_py, rv)
        ELSE AsDataFrame(value_py, rv)

\* lines 43-81.  globalenv[name] raises for a name that is not bound; the
\* scripts of lines 48, 66, 70, 76 and 78 paste the name into R source, which
\* R parses as that variable only if the name is a syntactic symbol.
getitem(env, name) ==
    IF env[name] = Unbound THEN Raise("KeyError", name)
    ELSE IF name \notin SyntacticNames
        THEN Raise("RParsingError", "is.atomic(" \o name \o ")")
    ELSE Read(env[name])

\* --- the R values a script can bind ----------------------------------------
ScriptValues ==
    {RVector("double", <<"1.5">>, <<>>),
     RVector("double", <<"1.5">>, <<"a">>),
     RVector("double", <<"1.5", "2.5">>, <<>>),
     RVector("double", <<"1.5", "2.5">>, <<"a", "b">>),
     RVector("character", <<"u">>, <<>>),
     RVector("character", <<"u", "v">>, <<>>),
     RVector("list", <<"1", "2">>, <<"a", "b">>),
     RMatrix("double", <<"1.5">>, <<1, 1>>, <<>>, <<>>),
     RMatrix("character", <<"u">>, <<1, 1>>, <<>>, <<>>),
     RMatrix("double", <<"1", "2", "3", "4">>, <<2, 2>>, <<>>, <<>>),
     RMatrix("double", <<"1", "2", "3", "4">>, <<2, 2>>, <<"r1", "r2">>, <<>>),
     RMatrix("double", <<"1", "2", "3", "4">>, <<2, 2>>, <<>>, <<"c1", "c2">>),
     RMatrix("double", <<"1", "2", "3", "4">>, <<2, 2>>, <<"r1", "r2">>, <<"c1", "c2">>),
     RMatrix("double", <<"1", "2">>, <<2, 1, 1>>, <<>>, <<>>),
     RValue("data.frame", <<"1", "2">>, <<>>, <<"v">>, <<"1", "2">>, <<>>),
     RValue("data.frame", <<"1">>, <<>>, <<"v">>, <<"1">>, <<>>)}


RSpaceInit ==
    /\ globalenv = [n \in Names |-> Unbound]
    /\ written = [n \in Names |-> NotWritten]
    /\ lastop = NoOp
    /\ handlers = [l \in Loggers |-> <<>>]
    /\ level = [l \in Loggers |-> IF l = RootLogger THEN WARNING ELSE NOTSET]
    /\ last_print = [l \in Loggers |-> <<>>]
    /\ ncalls = [l \in Loggers |-> 0]
    /\ lastcall = NoCall
    /\ call = NoHelperCall
    /\ outcome = Pending

\* RSpace.__setitem__(name, value) through instance inst
setitem(inst, name, value) ==
    LET value_r == py2rpy(Tagged(value))
    IN  /\ globalenv' = assign(globalenv, name, value_r)
        /\ written' = [written EXCEPT ![name] =
                          [via |-> "setitem", by |-> inst, value |-> value,
                           overwrote |-> globalenv[name] \notin {Unbound, value_r}]]
        /\ lastop' = [op |-> "setitem", inst |-> inst, name |-> name,
                      others_kept |-> \A m \in Names \ {name} :
                                         globalenv'[m] = globalenv[m]]

\* RSpace.__getitem__(name) through instance inst
getitem_call(inst, name) ==
    /\ lastop' = [op |-> "getitem", inst |-> inst, name |-> name,
                  outcome |-> getitem(globalenv, name)]
    /\ UNCHANGED <<globalenv, written>>

\* RSpace.__call__(r_script) for a script that binds a value: name <- value
call_assign(inst, name, rv) ==
    /\ globalenv' = [globalenv EXCEPT ![name] = rv]
    /\ written' = [written EXCEPT ![name] = [via |-> "script", by |-> inst]]
    /\ lastop' = [op |-> "call", inst |-> inst, name |-> name,
                  others_kept |-> \A m \in Names \ {name} :
                                     globalenv'[m] = globalenv[m]]

SetItem ==
    /\ \E inst \in Instances, name \in Names, value \in HostValues :
          setitem(inst, name, value)
    /\ UNCHANGED <<loggerVars, helperVars>>

GetItem ==
    /\ \E inst \in Instances, name \in Names : getitem_call(inst, name)
    /\ UNCHANGED <<loggerVars, helperVars>>

CallScript ==
    /\ \E inst \in Instances, name \in Names, rv \in ScriptValues :
          call_assign(inst, name, rv)
    /\ UNCHANGED <<loggerVars, helperVars>>

(***************************************************************************)
(* Specifications                                                           *)
(***************************************************************************)
SpecLogger ==
    LoggerInit /\ [][GetLoggerCall]_vars

SpecPvalue ==
    PvalueInit /\ [][PvalueCall]_vars

SpecInterval ==
    IntervalInit /\ [][IntervalCall]_vars

SpecIsTrue ==
    IsTrueInit /\ [][IsTrueCall]_vars

SpecRSpace ==
    RSpaceInit /\ [][SetItem \/ GetItem \/ CallScript]_vars

SpecSelect ==
    SelectInit /\ [][SelectCall]_vars

(***************************************************************************)
(* Claims about get_logger                                                  *)
(***************************************************************************)

\* C1: starting with no handlers anywhere, every logger requested at least
\* once has exactly one attached handler (the stream handler); the call that
\* found the logger without handlers attached exactly that one, and a call
\* that found a handler left the handler list as it was.
C1_OneHandlerPerLogger ==
    /\ \A l \in Loggers :
          IF ncalls[l] >= 1 THEN handlers[l] = <<StreamHandler>>
                            ELSE handlers[l] = <<>>
    /\ lastcall # NoCall =>
          IF ncalls[lastcall.logger] = 1
             THEN /\ lastcall.handlers_before = <<>>
                  /\ handlers[lastcall.logger] = <<StreamHandler>>
             ELSE handlers[lastcall.logger] = lastcall.handlers_before

\* C1 witness: a logger requested MaxCalls times, the last time through
\* another name of the root logger, still holds one handler.
C1_Witness ==
    /\ ncalls[RootLogger] = MaxCalls
    /\ ncalls["a.b"] >= 2
    /\ lastcall.name = ""
    /\ Len(lastcall.handlers_before) = 1
    /\ Len(handlers[RootLogger]) = 1

StripIndicator(row) == [index |-> row.index, col |-> row.col]

\* the keys the claim gives the queries: '' for a lone string, 0, 1, 2, ...
\* for a list, the mapping's own keys otherwise
C4_Keys ==
    LET q == call.queries
    IN  CASE q.type = "str" -> <<StrKey("")>>
          [] q.type = "list" -> [i \in 1..Len(q.ques) |-> IntKey(i - 1)]
          [] q.type = "dict" -> [i \in 1..Len(q.items) |-> q.items[i][1]]

C4_Ques ==
    LET q == call.queries
    IN  CASE q.type = "str" -> <<q.que>>
          [] q.type = "list" -> q.ques
          [] q.type = "dict" -> [i \in 1..Len(q.items) |-> q.items[i][2]]

\* res is the concatenation, in mapping order, of one subset per query
C4_IsConcatenation(res) ==
    LET df == call.dataframe
        keys == C4_Keys
        ques == C4_Ques
        pos(k) == CHOOSE i \in 1..Len(keys) : keys[i] = k
    IN  /\ \A j \in 1..Len(res) : \E i \in 1..Len(keys) : res[j].query = keys[i]
        /\ \A j, k \in 1..Len(res) :
              j < k => pos(res[j].query) <= pos(res[k].query)
        /\ \A i \in 1..Len(keys) :
              LET part == SelectSeq(res, LAMBDA r : r.query = keys[i])
                  want == SelectSeq(df, LAMBDA r : Satisfies(r, ques[i]))
              IN  /\ Len(part) = Len(want)
                  /\ \A j \in 1..Len(part) : StripIndicator(part[j]) = want[j]
        /\ \A row \in Rows :
              LET k == Cardinality({i \in 1..Len(ques) : Satisfies(row, ques[i])})
              IN  Cardinality({j \in 1..Len(res) : StripIndicator(res[j]) = row})
                    = k * Cardinality({j \in 1..Len(df) : df[j] = row})

\* C4 as stated: select returns that concatenation for every string, list
\* or mapping of queries.
C4_AlwaysReturnsConcatenation ==
    outcome # Pending =>
        /\ outcome.kind = "return"
        /\ C4_IsConcatenation(outcome.value)

\* C4 amended: with at least one query select returns the concatenation, in
\* mapping order, of one subset per query (keys '' / 0,1,2,... / the
\* mapping's own), each subset holding exactly the rows satisfying its query
\* in their original order and with their original index, so that a row
\* satisfying k queries appears k times and a row satisfying none does not
\* appear; with no query at all (an empty list or mapping) select raises.
C4_ReturnsConcatenationUnlessEmpty ==
    outcome # Pending =>
        IF Len(C4_Ques) = 0
            THEN outcome.kind = "raise"
            ELSE /\ outcome.kind = "return"
                 /\ C4_IsConcatenation(outcome.value)

\* C4 witness: a list of two queries, one row returned twice under the keys
\* 0 and 1 with the same index label, another row not returned at all.
C4_Witness ==
    /\ outcome # Pending
    /\ outcome.kind = "return"
    /\ call.queries.type = "list"
    /\ Len(call.queries.ques) = 2
    /\ Len(call.dataframe) = 2
    /\ \E j, k \in 1..Len(outcome.value) :
          /\ outcome.value[j].query = IntKey(0)
          /\ outcome.value[k].query = IntKey(1)
          /\ StripIndicator(outcome.value[j]) = StripIndicator(outcome.value[k])
    /\ \E p \in 1..Len(call.dataframe) :
          \A j \in 1..Len(outcome.value) :
              StripIndicator(outcome.value[j]) # call.dataframe[p]

\* C5: is_true returns the very data it was given whenever the check
\* succeeds and raises an AssertionError carrying the caller's message
\* whenever it fails; the check is the truth of condition(data) for a
\* callable condition and of the condition itself otherwise; True returns,
\* False raises.
C5_ReturnsDataOrRaises ==
    outcome # Pending =>
        LET c == call.condition
            ok == IF c.callable
                    THEN c.fn[call.data] \in
                            {PyValue("bool", "True"), PyValue("int", "1"),
                             PyValue("str", "0")}
                    ELSE c.value \in
                            {PyValue("bool", "True"), PyValue("int", "1"),
                             PyValue("str", "0")}
        IN  /\ ok => outcome = [kind |-> "return", value |-> call.data]
            /\ ~ok => outcome = [kind |-> "raise", exc |-> "AssertionError",
                                 message |-> call.message]
            /\ (~c.callable /\ c.value = PyValue("bool", "True"))
                  => outcome.kind = "return"
            /\ (~c.callable /\ c.value = PyValue("bool", "False"))
                  => outcome.kind = "raise"

\* C5 witness: a callable condition that is false of the data given and true
\* of other data makes the call raise with the caller's message.
C5_Witness ==
    /\ outcome # Pending
    /\ call.condition.callable
    /\ call.condition.fn[call.data] = PyValue("int", "0")
    /\ \E d \in Data : call.condition.fn[d] = PyValue("bool", "True")
    /\ call.message = "custom message"
    /\ outcome.kind = "raise"
    /\ outcome.message = "custom message"

\* C6: pvalue_to_asterisks returns '****' up to 0.0001, '***' up to 0.001,
\* '**' up to 0.01, '*' up to 0.05, each bound included, and 'ns' above.
C6_ThresholdLookup ==
    outcome # Pending =>
        LET p == call.p_value
            r == outcome.value
        IN  /\ outcome.kind = "return"
            /\ r \in {"****", "***", "**", "*", "ns"}
            /\ r = "****" <=> p \in 0..10
            /\ r = "***" <=> p \in 11..100
            /\ r = "**" <=> p \in 101..1000
            /\ r = "*" <=> p \in 1001..5000
            /\ r = "ns" <=> p > 5000
            /\ p \in {0, 5, 10} => r = "****"
            /\ p \in {90, 100} => r = "***"
            /\ p \in {500, 1000} => r = "**"
            /\ p \in {3000, 5000} => r = "*"
            /\ p = 50000 => r = "ns"

\* C6 witness: the boundary 0.05 itself is given one star.
C6_Witness ==
    /\ outcome # Pending
    /\ call.p_value = 5000
    /\ outcome.value = "*"

\* C7: interval2str puts the formatted bounds between '[' ']' for both,
\* '[' ')' for left, '(' ']' for right, '(' ')' for neither, and raises,
\* returning no string, for every other closedness tag.
C7_BracketsOrRaise ==
    outcome # Pending =>
        LET i == call.interval
            opening == IF i.closed \in {"both", "left"} THEN "[" ELSE "("
            closing == IF i.closed \in {"both", "right"} THEN "]" ELSE ")"
        IN  IF i.closed \in {"both", "left", "right", "neither"}
                THEN /\ outcome.kind = "return"
                     /\ Len(outcome.value) >= 10
                     /\ Head(outcome.value) = opening
                     /\ outcome.value[Len(outcome.value)] = closing
                     /\ SubSeq(outcome.value, 2, Len(outcome.value) - 1)
                            = RangeStr(i)
                     /\ (i.left = -5 /\ i.right = 12) =>
                            SubSeq(outcome.value, 2, Len(outcome.value) - 1)
                              = <<"-", "0", ".", "5", ",", " ", "1", ".", "2">>
                ELSE /\ outcome.kind = "raise"
                     /\ outcome.exc = "ValueError"

\* C7 witness: a closedness tag that differs from 'both' only in case raises.
C7_Witness ==
    /\ outcome # Pending
    /\ call.interval.closed = "Both"
    /\ outcome.kind = "raise"

(***************************************************************************)
(* Claims about RSpace                                                      *)
(***************************************************************************)
\* the last operation was a read of a bound name that R parses as a symbol
ReadOfBoundSymbol ==
    /\ lastop.op = "getitem"
    /\ lastop.name \in SyntacticNames
    /\ globalenv[lastop.name] # Unbound

\* none of the first four cases of the read policy applies to the R value
FallsThrough(rv) ==
    /\ ~(rv.type \in AtomicTypes /\ Len(rv.data) = 1)
    /\ rv.type # "data.frame"
    /\ rv.type # "character"
    /\ ~(rv.type \in {"double", "integer"} /\ Len(rv.dim) > 2)

\* C2: a scalar written under any name with __setitem__ and then read with
\* __getitem__, no write to the name in between, comes back as that scalar,
\* unwrapped.
C2_ScalarRoundTrip ==
    (/\ lastop.op = "getitem"
     /\ written[lastop.name].via = "setitem"
     /\ written[lastop.name].value.kind = "scalar")
        => lastop.outcome = Return(written[lastop.name].value)

\* C3: __getitem__ answers by the first matching case of: (1) atomic of
\* length one -> the unwrapped scalar; (2) a DataFrame from the converter ->
\* unchanged; (3) a character vector -> a flat array; (4) a numeric array of
\* more than two dimensions -> unchanged; (5) a Series or DataFrame built
\* from the shape.
C3_FirstMatchWins ==
    ReadOfBoundSymbol =>
        LET rv == globalenv[lastop.name]
            out == lastop.outcome
        IN  IF rv.type \in AtomicTypes /\ Len(rv.data) = 1
                THEN /\ out.kind = "return"
                     /\ out.value.kind = "scalar"
                     /\ out.value.repr = PyRepr(rv.type, rv.data[1])
            ELSE IF rv.type = "data.frame"
                THEN /\ out.kind = "return"
                     /\ out.value.kind = "DataFrame"
                     /\ out.value.index = Labels(rv.rownames)
                     /\ out.value.columns = Labels(rv.names)
            ELSE IF rv.type = "character"
                THEN out = Return(NdArray(<<Len(rv.data)>>, rv.data))
            ELSE IF rv.type \in {"double", "integer"} /\ Len(rv.dim) > 2
                THEN out = Return(NdArray(rv.dim, rv.data))
            ELSE out.kind = "return" => out.value.kind \in {"Series", "DataFrame"}

\* C8: in the fall-through case a value without dim is read as a Series
\* whose index is the value's names when it has names, a value with dim as a
\* table whose row labels are its rownames and whose column labels are its
\* colnames when present; an axis whose names are NULL keeps default labels.
C8_FallThroughLabels ==
    (ReadOfBoundSymbol /\ FallsThrough(globalenv[lastop.name])) =>
        LET rv == globalenv[lastop.name]
            out == lastop.outcome
        IN  /\ out.kind = "return"
            /\ IF rv.dim = <<>>
                 THEN /\ out.value.kind = "Series"
                      /\ rv.names # <<>> => out.value.index = Labels(rv.names)
                      /\ rv.names = <<>> => out.value.index.default
                 ELSE /\ out.value.kind = "DataFrame"
                      /\ out.value.shape = rv.dim
                      /\ IF rv.rownames # <<>>
                           THEN out.value.index = Labels(rv.rownames)
                           ELSE out.value.index = DefaultLabels(rv.dim[1])
                      /\ IF rv.colnames # <<>>
                           THEN out.value.columns = Labels(rv.colnames)
                           ELSE out.value.columns = DefaultLabels(rv.dim[2])

\* C9: there is one session for all instances: the binding of a name is the
\* converted value of the most recent __setitem__ for it whichever instance
\* made it, a read through any instance gives what a read right after that
\* write gives in a session holding nothing else, and a write leaves the
\* bindings of all other names as they were.
C9_OneSharedSession ==
    /\ \A n \in Names :
          written[n].via = "setitem" =>
              globalenv[n] = py2rpy(Tagged(written[n].value))
    /\ \A n \in Names : written[n].via = "none" => globalenv[n] = Unbound
    /\ (lastop.op = "getitem" /\ written[lastop.name].via = "setitem") =>
          lastop.outcome =
              getitem(assign([n \in Names |-> Unbound], lastop.name,
                             py2rpy(Tagged(written[lastop.name].value))),
                      lastop.name)
    /\ lastop.op \in {"setitem", "call"} => lastop.others_kept

\* C9 witness: instance 2 reads, and is given, the scalar that instance 1
\* wrote over an earlier binding of the name, while the other name holds
\* what instance 2 wrote.
C9_Witness ==
    /\ lastop.op = "getitem"
    /\ lastop.inst = 2
    /\ written[lastop.name].via = "setitem"
    /\ written[lastop.name].by = 1
    /\ written[lastop.name].overwrote
    /\ written[lastop.name].value.kind = "scalar"
    /\ lastop.outcome = Return(written[lastop.name].value)
    /\ \E m \in Names \ {lastop.name} :
          /\ written[m].via = "setitem"
          /\ written[m].by = 2

====
